---- MODULE Spec2Model ----
(***************************************************************************)
(* Model of src/src/apim_operations.ts: the operations that talk to the    *)
(* API management backend (credential login, user lookup with an           *)
(* in-memory cache, subscription creation, group reconciliation).          *)
(*                                                                         *)
(* Every remote call is an await: the caller is suspended when the call is *)
(* issued and resumed by the backend's answer, so each await is modelled   *)
(* as two steps (issue, answer) and the synchronous code between two       *)
(* awaits is one atomic step (single-threaded run to completion).          *)
(***************************************************************************)
EXTENDS Integers, Sequences, FiniteSets, TLC

None == "none"

\* ------------------------------------------------------------------------
\* Bounds of the model
\* ------------------------------------------------------------------------
MaxGroups == 3
MaxEpochs == 1
MaxOffset == 2
MaxResults == 1
MaxClears == 2
MaxSubscriptionCalls == 3
MaxKeyCalls == 2
MaxRequests == 2

GroupNames == {"g1", "g2", "g3"}

\* the desired group lists a caller can pass (duplicates allowed: the list
\* comes from splitting a configuration string)
RECURSIVE SeqsUpTo(_, _)
SeqsUpTo(S, n) ==
  IF n = 0 THEN {<<>>}
  ELSE LET shorter == SeqsUpTo(S, n - 1)
       IN  shorter \cup {Append(s, x) : s \in {t \in shorter : Len(t) = n - 1}, x \in S}

GroupLists == SeqsUpTo(GroupNames, MaxGroups)

\* the user argument: absent, a user without a name, a user with a name
NoUser == [absent |-> TRUE]
Users == {NoUser, [name |-> None], [name |-> "u1"]}

\* ------------------------------------------------------------------------
\* State
\* ------------------------------------------------------------------------
VARIABLES
  \* addUserToGroups
  gpc,                 \* position of the invocation
  gUser,               \* the user argument
  groups,              \* the groups argument
  membership,          \* backend: the groups user u1 belongs to
  existingGroupsNames, \* local of addUserToGroups
  missingGroups,       \* local of addUserToGroups
  cb,                  \* the reduce callbacks (one async closure per group)
  gresult,             \* what the invocation returned
  createLog,           \* groupUser.create calls issued by this invocation
  listCalls,           \* userGroup.list calls issued by this invocation
  repeat               \* set when this invocation repeats the previous,
                       \* successful one: what that one returned

VARIABLES
  \* loginToApim
  now,                 \* the clock Date.now() reads (ms)
  lpc,                 \* position of the invocation
  tokenCreds,          \* the tokenCreds argument
  callTime,            \* the clock when isTokenExpired was evaluated
  constructTime,       \* the clock when the returned object was built
  loginCreds,          \* local of loginToApim
  lresult,             \* what the invocation returned
  loginCalls,          \* loginWithAppServiceMSI calls of this invocation
  tokenCalls           \* getToken calls of this invocation

VARIABLES
  \* getApimUser and the user cache
  apimUserCache,       \* the module-level cache object: email -> user
  cpc,                 \* position of each caller's invocation
  cemail,              \* the email argument of each caller
  results,             \* local of getApimUser: what listByService answered
  cret,                \* what each caller's invocation returned
  queries,             \* user.listByService calls of each caller's invocation
  prevCall,            \* the caller's previous invocation, when this one
                       \* follows it for the same email without a clear
  clearedSince,        \* the cache was cleared since the invocation started
  evicted,             \* emails cached at a clear and not looked up since
  pendingAtClear,      \* emails with a lookup in flight at such a clear
  afterEviction,       \* whether the caller's invocation is the first lookup
                       \* of an evicted email: "no", "clean", or "raced" when
                       \* a lookup of that email was in flight at the clear
  clears               \* how many times the timer fired

VARIABLES
  \* addUserSubscriptionToProduct
  spc,                 \* position of each caller's invocation
  sUserId,             \* the userId argument of each caller
  sProductName,        \* the productName argument of each caller
  product,             \* local: what product.get answered
  subscriptionId,      \* local: the generated identifier
  sresult,             \* what each caller's invocation returned
  subscriptions,       \* backend: subscription id -> contract
  createCalls,         \* every subscription.createOrUpdate call issued so far
  myCall,              \* the index in createCalls of the caller's call
  ulidCount,           \* how many identifiers ulid() has generated
  started              \* how many invocations were started

VARIABLES
  \* getUserSubscription, regeneratePrimaryKey, regenerateSecondaryKey
  kpc,                 \* position of the invocation
  kWhich,              \* which of the two functions was invoked
  kSubscriptionId,     \* the subscriptionId argument
  kUserId,             \* the userId argument
  kBackend,            \* backend: subscription id -> contract, with its keys
  kFetched,            \* what subscription.get answered in this invocation
  kcalls,              \* the backend calls this invocation issued, in order
  kresult,             \* what the invocation returned
  kinvoked             \* how many invocations were started

VARIABLES
  \* the POST /service handler and assignUserToProducts
  hpc,                 \* position of the request handler
  response,            \* what was sent to the client of the request
  reqUser,             \* req.user of the request
  opc,                 \* position of assignUserToProducts
  upc,                 \* position inside updateApimUser
  oSubscription,       \* local subscription: what updateApimUser returned
  fakeFiscalCode,      \* local fakeFiscalCode: what createFakeProfile returned
  ocalls,              \* the calls assignUserToProducts issued, in order
  ucalls,              \* the operations updateApimUser invoked, in order
  oresult,             \* how the promise of assignUserToProducts settled
  failedAt,            \* the call of assignUserToProducts that failed
  oStartedBefore,      \* subscription invocations started before this request
  requests             \* how many requests were received

gvars == <<gpc, gUser, groups, membership, existingGroupsNames, missingGroups,
           cb, gresult, createLog, listCalls, repeat>>

lvars == <<now, lpc, tokenCreds, callTime, constructTime, loginCreds, lresult,
           loginCalls, tokenCalls>>

cvars == <<apimUserCache, cpc, cemail, results, cret, queries, prevCall,
           clearedSince, evicted, pendingAtClear, afterEviction, clears>>

svars == <<spc, sUserId, sProductName, product, subscriptionId, sresult,
           subscriptions, createCalls, myCall, ulidCount, started>>

kvars == <<kpc, kWhich, kSubscriptionId, kUserId, kBackend, kFetched, kcalls,
           kresult, kinvoked>>

ovars == <<hpc, response, reqUser, opc, upc, oSubscription, fakeFiscalCode,
           ocalls, ucalls, oresult, failedAt, oStartedBefore, requests>>

vars == <<gvars, lvars, cvars, svars, kvars, ovars>>

\* what the operations of one component leave alone
notGroups == <<lvars, cvars, svars, kvars, ovars>>
notLogin == <<gvars, cvars, svars, kvars, ovars>>
notCache == <<gvars, lvars, svars, kvars, ovars>>
notSubscriptions == <<gvars, lvars, cvars, kvars, ovars>>
notKeys == <<gvars, lvars, cvars, svars, ovars>>
notOnboarding == <<gvars, lvars, cvars, kvars>>

\* ------------------------------------------------------------------------
\* addUserToGroups (apim_operations.ts:263-306)
\* ------------------------------------------------------------------------
Left(msg) == [tag |-> "left", error |-> msg]
Right(v) == [tag |-> "right", value |-> v]
Rejected == [tag |-> "rejected"]
Pending == [tag |-> "pending"]

\* the invocation is not a repetition of the previous one
NoRepeat == [is |-> FALSE, added |-> <<>>]

\* the mutation: only an absent user is refused
CannotParseUserOnlyAbsent(user) == user = NoUser

\* !user || !user.name
CannotParseUser(user) == user = NoUser \/ user.name = None

\* new Set(existingGroups.map(g => g.name))
ExistingNames(existingGroups) == existingGroups

\* the mutation: the filter ignores the current memberships
MissingGroupsAll(G, existing) == {G[i] : i \in DOMAIN G}

\* new Set(groups.filter(g => !existingGroupsNames.has(g)))
MissingGroups(G, existing) == {G[i] : i \in {j \in DOMAIN G : G[j] \notin existing}}

\* the mutation: the callback does not wait for the previous promise
PrevSettledNoAwait(c, i) == TRUE

\* the mutation: the callback goes on when the previous promise is rejected
PrevResolvedOrRejected(c, i) ==
  IF i = 1 THEN TRUE ELSE c[i - 1].st \in {"resolved", "rejected"}

\* `await prev` resumes with a value: the accumulator promise is resolved
PrevResolved(c, i) == IF i = 1 THEN TRUE ELSE c[i - 1].st = "resolved"

\* `await prev` throws: the accumulator promise is rejected
PrevRejected(c, i) == IF i = 1 THEN FALSE ELSE c[i - 1].st = "rejected"

\* the value `await prev` yields
PrevValue(c, i) == IF i = 1 THEN <<>> ELSE c[i - 1].val

\* groups.reduce(async (prev, group) => ..., Promise.resolve([])) calls the
\* callback synchronously once per element; each closure runs up to its
\* first await (`await prev`) and returns its promise, the next one's prev
ReduceStart(G) == [i \in DOMAIN G |-> [st |-> "awaitPrev", val |-> <<>>]]

\* no invocation yet; the user may already belong to any of the groups
GInit ==
  /\ gpc = "idle"
  /\ gUser = NoUser
  /\ groups = <<>>
  /\ membership \in SUBSET GroupNames
  /\ existingGroupsNames = {}
  /\ missingGroups = {}
  /\ cb = <<>>
  /\ gresult = Pending
  /\ createLog = <<>>
  /\ listCalls = 0
  /\ repeat = NoRepeat

\* a caller invokes addUserToGroups(apiClient, user, groups); lines 268-276
AddUserToGroups(user, G) ==
  /\ gpc \in {"idle", "done"}
  /\ gUser' = user
  /\ groups' = G
  /\ repeat' = IF gpc = "done" /\ gresult.tag = "right"
                   /\ user = gUser /\ G = groups
                THEN [is |-> TRUE, added |-> gresult.value]
                ELSE NoRepeat
  /\ existingGroupsNames' = {}
  /\ missingGroups' = {}
  /\ cb' = <<>>
  /\ createLog' = <<>>
  /\ IF CannotParseUser(user)
     THEN /\ gresult' = Left("Cannot parse user")
          /\ gpc' = "done"
          /\ listCalls' = 0
     ELSE /\ gresult' = Pending
          /\ gpc' = "list"
          /\ listCalls' = 1
  /\ UNCHANGED membership
  /\ UNCHANGED notGroups

\* apiClient.userGroup.list answers; lines 277-292
UserGroupListReturns ==
  /\ gpc = "list"
  /\ existingGroupsNames' = ExistingNames(membership)
  /\ missingGroups' = MissingGroups(groups, ExistingNames(membership))
  /\ IF Cardinality(missingGroups') = 0
     THEN /\ gresult' = Right(<<>>)
          /\ gpc' = "done"
          /\ cb' = <<>>
     ELSE /\ gresult' = Pending
          /\ gpc' = "reduce"
          /\ cb' = ReduceStart(groups)
  /\ UNCHANGED <<gUser, groups, membership, createLog, listCalls, repeat>>
  /\ UNCHANGED notGroups

\* apiClient.userGroup.list fails: the await at line 272 throws
UserGroupListFails ==
  /\ gpc = "list"
  /\ gresult' = Rejected
  /\ gpc' = "done"
  /\ UNCHANGED <<gUser, groups, membership, existingGroupsNames, missingGroups,
                 cb, createLog, listCalls, repeat>>
  /\ UNCHANGED notGroups

\* closure i resumes from `await prev` and issues groupUser.create; 294-302
GroupUserCreateIssued(i) ==
  /\ gpc = "reduce"
  /\ i \in DOMAIN cb
  /\ cb[i].st = "awaitPrev"
  /\ PrevResolved(cb, i)
  /\ cb' = [cb EXCEPT ![i] = [st |-> "inCreate", val |-> PrevValue(cb, i)]]
  /\ createLog' = Append(createLog, groups[i])
  /\ UNCHANGED <<gpc, gUser, groups, membership, existingGroupsNames,
                 missingGroups, gresult, listCalls, repeat>>
  /\ UNCHANGED notGroups

\* `await prev` throws in closure i: its own promise is rejected; line 294
AwaitPrevThrows(i) ==
  /\ gpc = "reduce"
  /\ i \in DOMAIN cb
  /\ cb[i].st = "awaitPrev"
  /\ PrevRejected(cb, i)
  /\ cb' = [cb EXCEPT ![i].st = "rejected"]
  /\ UNCHANGED <<gpc, gUser, groups, membership, existingGroupsNames,
                 missingGroups, gresult, createLog, listCalls, repeat>>
  /\ UNCHANGED notGroups

\* groupUser.create answers; closure i returns [...addedGroups, group]; 303
GroupUserCreateReturns(i) ==
  /\ gpc = "reduce"
  /\ i \in DOMAIN cb
  /\ cb[i].st = "inCreate"
  /\ membership' = membership \cup {groups[i]}
  /\ cb' = [cb EXCEPT ![i] = [st |-> "resolved", val |-> Append(cb[i].val, groups[i])]]
  /\ UNCHANGED <<gpc, gUser, groups, existingGroupsNames, missingGroups,
                 gresult, createLog, listCalls, repeat>>
  /\ UNCHANGED notGroups

\* groupUser.create fails: the await at line 297 throws
GroupUserCreateFails(i) ==
  /\ gpc = "reduce"
  /\ i \in DOMAIN cb
  /\ cb[i].st = "inCreate"
  /\ cb' = [cb EXCEPT ![i].st = "rejected"]
  /\ UNCHANGED <<gpc, gUser, groups, membership, existingGroupsNames,
                 missingGroups, gresult, createLog, listCalls, repeat>>
  /\ UNCHANGED notGroups

\* the promise reduce returned is settled: right(await ...) at line 292
ReduceSettled ==
  /\ gpc = "reduce"
  /\ cb[Len(cb)].st \in {"resolved", "rejected"}
  /\ gresult' = IF cb[Len(cb)].st = "resolved"
                THEN Right(cb[Len(cb)].val)
                ELSE Rejected
  /\ gpc' = "done"
  /\ UNCHANGED <<gUser, groups, membership, existingGroupsNames, missingGroups,
                 cb, createLog, listCalls, repeat>>
  /\ UNCHANGED notGroups


\* ------------------------------------------------------------------------
\* loginToApim (apim_operations.ts:51-84)
\* ------------------------------------------------------------------------
\* cache token for 1 hour: 3600 * 1000
TTL == 3600 * 1000

\* the instants at which the clock is observed: a few milliseconds around
\* each multiple of the token lifetime
Clock == {k * TTL + j : k \in 0..MaxEpochs, j \in 0..MaxOffset}

LoginCredsIds == {"msi1", "msi2"}
Tokens == {"tok1", "tok2"}

\* tokenCreds?: ITokenAndCredentials
NoCreds == [absent |-> TRUE]
Credentials ==
  [token : Tokens, loginCreds : LoginCredsIds,
   expiresOn : Clock \cup {t + TTL : t \in Clock}]

\* the mutation: every credential counts as expired
IsTokenExpiredAlways(creds, t) == TRUE

\* the mutation: the comparison is strict
IsTokenExpiredStrict(creds, t) ==
  IF creds # NoCreds THEN creds.expiresOn < t ELSE FALSE

\* tokenCreds ? tokenCreds.expiresOn <= Date.now() : false
IsTokenExpired(creds, t) ==
  IF creds # NoCreds THEN creds.expiresOn <= t ELSE FALSE

\* tokenCreds && !isTokenExpired
ReturnOldCredentials(creds, t) == creds # NoCreds /\ ~IsTokenExpired(creds, t)

\* { expiresOn: Date.now() + 3600 * 1000, loginCreds, token }
NewCredentials(t, creds, tok) ==
  [expiresOn |-> t + TTL, loginCreds |-> creds, token |-> tok]

LInit ==
  /\ now = 0
  /\ lpc = "idle"
  /\ tokenCreds = NoCreds
  /\ callTime = 0
  /\ constructTime = 0
  /\ loginCreds = None
  /\ lresult = Pending
  /\ loginCalls = 0
  /\ tokenCalls = 0

\* time passes
Tick(t) ==
  /\ t > now
  /\ now' = t
  /\ UNCHANGED <<lpc, tokenCreds, callTime, constructTime, loginCreds, lresult,
                 loginCalls, tokenCalls>>
  /\ UNCHANGED notLogin

\* a caller invokes loginToApim(tokenCreds); lines 54-72
LoginToApim(creds) ==
  /\ lpc \in {"idle", "done"}
  /\ tokenCreds' = creds
  /\ callTime' = now
  /\ constructTime' = 0
  /\ loginCreds' = None
  /\ tokenCalls' = 0
  /\ IF ReturnOldCredentials(creds, now)
     THEN /\ lresult' = creds
          /\ lpc' = "done"
          /\ loginCalls' = 0
     ELSE /\ lresult' = Pending
          /\ lpc' = "login"
          /\ loginCalls' = 1
  /\ UNCHANGED now
  /\ UNCHANGED notLogin

\* msRestAzure.loginWithAppServiceMSI answers; getToken is called; 72-73
LoginWithAppServiceMSIReturns(c) ==
  /\ lpc = "login"
  /\ loginCreds' = c
  /\ lpc' = "getToken"
  /\ tokenCalls' = tokenCalls + 1
  /\ UNCHANGED <<now, tokenCreds, callTime, constructTime, lresult, loginCalls>>
  /\ UNCHANGED notLogin

\* msRestAzure.loginWithAppServiceMSI fails: the await at line 72 throws
LoginWithAppServiceMSIFails ==
  /\ lpc = "login"
  /\ lresult' = Rejected
  /\ lpc' = "done"
  /\ UNCHANGED <<now, tokenCreds, callTime, constructTime, loginCreds,
                 loginCalls, tokenCalls>>
  /\ UNCHANGED notLogin

\* getToken resolves (line 46); the new credentials are built; lines 75-83
GetTokenResolves(tok) ==
  /\ lpc = "getToken"
  /\ constructTime' = now
  /\ lresult' = NewCredentials(now, loginCreds, tok)
  /\ lpc' = "done"
  /\ UNCHANGED <<now, tokenCreds, callTime, loginCreds, loginCalls, tokenCalls>>
  /\ UNCHANGED notLogin

\* getToken rejects (line 44): the await at line 73 throws
GetTokenRejects ==
  /\ lpc = "getToken"
  /\ lresult' = Rejected
  /\ lpc' = "done"
  /\ UNCHANGED <<now, tokenCreds, callTime, constructTime, loginCreds,
                 loginCalls, tokenCalls>>
  /\ UNCHANGED notLogin

LNext ==
  \/ \E t \in Clock : Tick(t)
  \/ \E creds \in Credentials \cup {NoCreds} : LoginToApim(creds)
  \/ \E c \in LoginCredsIds : LoginWithAppServiceMSIReturns(c)
  \/ LoginWithAppServiceMSIFails
  \/ \E tok \in Tokens : GetTokenResolves(tok)
  \/ GetTokenRejects

\* ------------------------------------------------------------------------
\* apimUserCache, its timer and getApimUser (apim_operations.ts:166-224)
\* ------------------------------------------------------------------------
Procs == {"p1", "p2"}
Emails == {"a@x", "b@x"}

NoneOpt == [tag |-> "none"]
Some(v) == [tag |-> "some", value |-> v]

\* UserContract as the backend returns it for a query on email e; id and
\* name are optional in the contract: a property can be undefined (None)
\* or the empty string
UserIds == {"", "id1"}
UserNames == {None, "n1", "n2"}
UserContracts(e) == [id : UserIds, name : UserNames, email : {e}]

\* what apiClient.user.listByService can answer: undefined or an array
Undefined == [defined |-> FALSE, length |-> 0, first |-> None]
ArrayOf(arr) ==
  [defined |-> TRUE, length |-> Len(arr),
   first |-> IF Len(arr) = 0 THEN None ELSE arr[1]]
Answers(e) == {Undefined} \cup {ArrayOf(arr) : arr \in SeqsUpTo(UserContracts(e), MaxResults)}
NoAnswer == [defined |-> FALSE, length |-> 0, first |-> "unset"]

\* !x for an optional string: undefined and "" are falsy
Falsy(x) == x \in {None, ""}

\* !results || results.length === 0
NoResults(res) == ~res.defined \/ res.length = 0

\* the mutation: only a result lacking both id and name is unusable
UnusableOnlyIfBoth(user) == Falsy(user.id) /\ Falsy(user.name)

\* !user.id || !user.name
Unusable(user) == Falsy(user.id) \/ Falsy(user.name)

\* { id: user.id, name: user.name, ...user }: the spread comes last, so
\* every property has the value it has in user
ApimUser(user) ==
  [f \in DOMAIN user \cup {"id", "name"} |->
     IF f \in DOMAIN user THEN user[f]
     ELSE IF f = "id" THEN user.id ELSE user.name]

\* { ...x }: a copy with the same own properties
Spread(x) == [f \in DOMAIN x |-> x[f]]

\* the mutation: the entry is not stored
CachePutNothing(cache, e, u) == cache

\* the mutation: the entry is stored under every email
CachePutAll(cache, e, u) == [k \in Emails |-> Spread(u)]

\* apimUserCache[email] = { ...apimUser }
CachePut(cache, e, u) ==
  [k \in DOMAIN cache \cup {e} |-> IF k = e THEN Spread(u) ELSE cache[k]]

\* the mutation: the timer leaves the entries in place
KeptCache(cache) == cache

\* apimUserCache = {}
EmptiedCache(cache) == [k \in {} |-> NoUser]

NoPrev == [valid |-> FALSE, queries |-> 0, found |-> FALSE]

CInit ==
  /\ apimUserCache = [k \in {} |-> NoUser]
  /\ cpc = [p \in Procs |-> "idle"]
  /\ cemail = [p \in Procs |-> None]
  /\ results = [p \in Procs |-> NoAnswer]
  /\ cret = [p \in Procs |-> Pending]
  /\ queries = [p \in Procs |-> 0]
  /\ prevCall = [p \in Procs |-> NoPrev]
  /\ clearedSince = [p \in Procs |-> FALSE]
  /\ evicted = {}
  /\ pendingAtClear = {}
  /\ afterEviction = [p \in Procs |-> "no"]
  /\ clears = 0

\* the setInterval callback; lines 177-180
ClearCache ==
  /\ clears < MaxClears
  /\ clears' = clears + 1
  /\ apimUserCache' = EmptiedCache(apimUserCache)
  /\ prevCall' = [p \in Procs |-> NoPrev]
  /\ clearedSince' = [p \in Procs |-> TRUE]
  /\ evicted' = evicted \cup DOMAIN apimUserCache
  /\ pendingAtClear' = pendingAtClear \cup {cemail[p] : p \in {q \in Procs : cpc[q] = "query"}}
  /\ UNCHANGED <<cpc, cemail, results, cret, queries, afterEviction>>
  /\ UNCHANGED notCache

\* caller p invokes getApimUser(apiClient, email); lines 192-209
GetApimUser(p, e) ==
  /\ cpc[p] \in {"idle", "done"}
  /\ cemail' = [cemail EXCEPT ![p] = e]
  /\ results' = [results EXCEPT ![p] = NoAnswer]
  /\ prevCall' = [prevCall EXCEPT ![p] =
       IF cpc[p] = "done" /\ cemail[p] = e /\ ~clearedSince[p]
          /\ cret[p] # Rejected
       THEN [valid |-> TRUE, queries |-> queries[p],
             found |-> cret[p].tag = "some"]
       ELSE NoPrev]
  /\ clearedSince' = [clearedSince EXCEPT ![p] = FALSE]
  /\ evicted' = evicted \ {e}
  /\ pendingAtClear' = pendingAtClear \ {e}
  /\ afterEviction' = [afterEviction EXCEPT ![p] =
       IF e \notin evicted THEN "no"
       ELSE IF e \in pendingAtClear THEN "raced" ELSE "clean"]
  /\ IF e \in DOMAIN apimUserCache
     THEN /\ cret' = [cret EXCEPT ![p] = Some(Spread(apimUserCache[e]))]
          /\ cpc' = [cpc EXCEPT ![p] = "done"]
          /\ queries' = [queries EXCEPT ![p] = 0]
     ELSE /\ cret' = [cret EXCEPT ![p] = Pending]
          /\ cpc' = [cpc EXCEPT ![p] = "query"]
          /\ queries' = [queries EXCEPT ![p] = 1]
  /\ UNCHANGED <<apimUserCache, clears>>
  /\ UNCHANGED notCache

\* apiClient.user.listByService answers caller p; lines 210-223
ListByServiceReturns(p, res) ==
  /\ cpc[p] = "query"
  /\ results' = [results EXCEPT ![p] = res]
  /\ cpc' = [cpc EXCEPT ![p] = "done"]
  /\ IF NoResults(res) \/ Unusable(res.first)
     THEN /\ cret' = [cret EXCEPT ![p] = NoneOpt]
          /\ UNCHANGED apimUserCache
     ELSE /\ apimUserCache' = CachePut(apimUserCache, cemail[p], ApimUser(res.first))
          /\ cret' = [cret EXCEPT ![p] = Some(ApimUser(res.first))]
  /\ UNCHANGED <<cemail, queries, prevCall, clearedSince, evicted,
                 pendingAtClear, afterEviction, clears>>
  /\ UNCHANGED notCache

\* apiClient.user.listByService fails: the await at line 205 throws
ListByServiceFails(p) ==
  /\ cpc[p] = "query"
  /\ cret' = [cret EXCEPT ![p] = Rejected]
  /\ cpc' = [cpc EXCEPT ![p] = "done"]
  /\ UNCHANGED <<apimUserCache, cemail, results, queries, prevCall,
                 clearedSince, evicted, pendingAtClear, afterEviction, clears>>
  /\ UNCHANGED notCache

CNext ==
  \/ ClearCache
  \/ \E p \in Procs, e \in Emails : GetApimUser(p, e)
  \/ \E p \in Procs : \E res \in Answers(cemail[p]) : ListByServiceReturns(p, res)
  \/ \E p \in Procs : ListByServiceFails(p)

\* ------------------------------------------------------------------------
\* addUserSubscriptionToProduct (apim_operations.ts:226-258)
\* ------------------------------------------------------------------------
SubscriberIds == {"u1", "u2"}
ProductNames == {"plan-A", "plan-B"}

\* what apiClient.product.get can answer for a product name: undefined, a
\* product without id, or the product with its id
NoProduct == [absent |-> TRUE]
ProductIdOf(name) == IF name = "plan-A" THEN "prod-1" ELSE "prod-2"
ProductAnswers(name) ==
  {NoProduct, [id |-> None, name |-> name], [id |-> ProductIdOf(name), name |-> name]}

\* the mutation: a product without id is taken as found
CannotFindProductOnlyAbsent(prod) == prod = NoProduct

\* !product || !product.id
CannotFindProduct(prod) == prod = NoProduct \/ Falsy(prod.id)

\* ulid(): a new identifier at every call (timestamp and 80 random bits),
\* here the ordinal of the call
Ulid(count) == count + 1

\* the mutation: one identifier, generated once, is used by every call
SubscriptionIdReused(count) == 1

\* const subscriptionId = ulid()
NewSubscriptionId(count) == Ulid(count)

\* { displayName: subscriptionId, productId: product.id, state: "active",
\*   userId }
SubscriptionParameters(sid, prod, userId) ==
  [displayName |-> sid, productId |-> prod.id, state |-> "active",
   userId |-> userId]

\* the backend's createOrUpdate: the subscription sid is created, or
\* replaced when it exists
CreateOrUpdate(subs, sid, params) ==
  [k \in DOMAIN subs \cup {sid} |->
     IF k = sid
     THEN [name |-> sid, displayName |-> params.displayName,
           productId |-> params.productId, state |-> params.state,
           userId |-> params.userId]
     ELSE subs[k]]

SInit ==
  /\ spc = [p \in Procs |-> "idle"]
  /\ sUserId = [p \in Procs |-> None]
  /\ sProductName = [p \in Procs |-> None]
  /\ product = [p \in Procs |-> NoProduct]
  /\ subscriptionId = [p \in Procs |-> 0]
  /\ sresult = [p \in Procs |-> Pending]
  /\ subscriptions = [k \in {} |-> NoProduct]
  /\ createCalls = <<>>
  /\ myCall = [p \in Procs |-> 0]
  /\ ulidCount = 0
  /\ started = 0

\* caller p invokes addUserSubscriptionToProduct(apiClient, userId,
\* productName): product.get is issued; lines 231-236
AddUserSubscriptionToProduct(p, userId, productName) ==
  /\ spc[p] \in {"idle", "done"}
  /\ started < MaxSubscriptionCalls
  /\ started' = started + 1
  /\ sUserId' = [sUserId EXCEPT ![p] = userId]
  /\ sProductName' = [sProductName EXCEPT ![p] = productName]
  /\ product' = [product EXCEPT ![p] = NoProduct]
  /\ subscriptionId' = [subscriptionId EXCEPT ![p] = 0]
  /\ sresult' = [sresult EXCEPT ![p] = Pending]
  /\ myCall' = [myCall EXCEPT ![p] = 0]
  /\ spc' = [spc EXCEPT ![p] = "getProduct"]
  /\ UNCHANGED <<subscriptions, createCalls, ulidCount>>
  /\ UNCHANGED notSubscriptions

\* apiClient.product.get answers caller p; lines 237-256
ProductGetReturns(p, prod) ==
  /\ spc[p] = "getProduct"
  /\ product' = [product EXCEPT ![p] = prod]
  /\ IF CannotFindProduct(prod)
     THEN /\ sresult' = [sresult EXCEPT ![p] =
                Left("Cannot find API management product for update")]
          /\ spc' = [spc EXCEPT ![p] = "done"]
          /\ UNCHANGED <<subscriptionId, createCalls, myCall, ulidCount>>
     ELSE /\ subscriptionId' = [subscriptionId EXCEPT ![p] = NewSubscriptionId(ulidCount)]
          /\ ulidCount' = ulidCount + 1
          /\ createCalls' = Append(createCalls,
               [sid |-> subscriptionId'[p],
                params |-> SubscriptionParameters(subscriptionId'[p], prod, sUserId[p]),
                status |-> "inFlight"])
          /\ myCall' = [myCall EXCEPT ![p] = Len(createCalls) + 1]
          /\ spc' = [spc EXCEPT ![p] = "createOrUpdate"]
          /\ UNCHANGED sresult
  /\ UNCHANGED <<sUserId, sProductName, subscriptions, started>>
  /\ UNCHANGED notSubscriptions

\* apiClient.product.get fails: the await at line 232 throws
ProductGetFails(p) ==
  /\ spc[p] = "getProduct"
  /\ sresult' = [sresult EXCEPT ![p] = Rejected]
  /\ spc' = [spc EXCEPT ![p] = "done"]
  /\ UNCHANGED <<sUserId, sProductName, product, subscriptionId, subscriptions,
                 createCalls, myCall, ulidCount, started>>
  /\ UNCHANGED notSubscriptions

\* apiClient.subscription.createOrUpdate answers caller p; lines 245-257
CreateOrUpdateReturns(p) ==
  /\ spc[p] = "createOrUpdate"
  /\ subscriptions' = CreateOrUpdate(subscriptions, createCalls[myCall[p]].sid,
                                     createCalls[myCall[p]].params)
  /\ createCalls' = [createCalls EXCEPT ![myCall[p]].status = "ok"]
  /\ sresult' = [sresult EXCEPT ![p] = Right(subscriptions'[createCalls[myCall[p]].sid])]
  /\ spc' = [spc EXCEPT ![p] = "done"]
  /\ UNCHANGED <<sUserId, sProductName, product, subscriptionId, myCall,
                 ulidCount, started>>
  /\ UNCHANGED notSubscriptions

\* apiClient.subscription.createOrUpdate fails: the await at line 246 throws
CreateOrUpdateFails(p) ==
  /\ spc[p] = "createOrUpdate"
  /\ createCalls' = [createCalls EXCEPT ![myCall[p]].status = "failed"]
  /\ sresult' = [sresult EXCEPT ![p] = Rejected]
  /\ spc' = [spc EXCEPT ![p] = "done"]
  /\ UNCHANGED <<sUserId, sProductName, product, subscriptionId, subscriptions,
                 myCall, ulidCount, started>>
  /\ UNCHANGED notSubscriptions

SNext ==
  \/ \E p \in Procs, userId \in SubscriberIds, productName \in ProductNames :
       AddUserSubscriptionToProduct(p, userId, productName)
  \/ \E p \in Procs : \E prod \in ProductAnswers(sProductName[p]) : ProductGetReturns(p, prod)
  \/ \E p \in Procs : ProductGetFails(p)
  \/ \E p \in Procs : CreateOrUpdateReturns(p)
  \/ \E p \in Procs : CreateOrUpdateFails(p)

\* ------------------------------------------------------------------------
\* getUserSubscription, regeneratePrimaryKey, regenerateSecondaryKey
\* (apim_operations.ts:86-101, 117-159)
\* ------------------------------------------------------------------------
SubscriptionIds == {"s1", "s2"}
KeyFunctions == {"primary", "secondary"}

\* the subscriptions the backend holds: each has an owner and two keys; the
\* name is optional in SubscriptionContract
BackendSubscriptions ==
  [SubscriptionIds ->
     [userId : SubscriberIds, name : {None, "sub"}, primaryKey : {0},
      secondaryKey : {0}]]

\* the mutation: the owner is not compared with the caller
UserSubscriptionAnyOwner(subscription, userId) ==
  IF Falsy(subscription.name) THEN NoneOpt ELSE Some(subscription)

\* getUserSubscription, lines 97-100, applied to what subscription.get
\* answered: subscription.userId !== userId || !subscription.name
UserSubscription(subscription, userId) ==
  IF subscription.userId # userId \/ Falsy(subscription.name)
  THEN NoneOpt
  ELSE Some([f \in DOMAIN subscription \cup {"name"} |-> subscription[f]])

\* the mutation: both functions regenerate the primary key
RegenerateCallPrimaryOnly(which) == "regeneratePrimaryKey"

\* apiClient.subscription.regeneratePrimaryKey (line 131) or
\* apiClient.subscription.regenerateSecondaryKey (line 153)
RegenerateCall(which) ==
  IF which = "primary" THEN "regeneratePrimaryKey" ELSE "regenerateSecondaryKey"

\* the backend's key regeneration: the key named by the call is replaced
Regenerated(subscription, call) ==
  IF call = "regeneratePrimaryKey"
  THEN [subscription EXCEPT !.primaryKey = @ + 1]
  ELSE [subscription EXCEPT !.secondaryKey = @ + 1]

KInit ==
  /\ kpc = "idle"
  /\ kWhich = "primary"
  /\ kSubscriptionId = "s1"
  /\ kUserId = "u1"
  /\ kBackend \in BackendSubscriptions
  /\ kFetched = <<>>
  /\ kcalls = <<>>
  /\ kresult = Pending
  /\ kinvoked = 0

\* a caller invokes regeneratePrimaryKey or regenerateSecondaryKey: the
\* first getUserSubscription issues subscription.get; lines 122-127, 91-96
RegenerateKey(which, sid, userId) ==
  /\ kpc \in {"idle", "done"}
  /\ kinvoked < MaxKeyCalls
  /\ kinvoked' = kinvoked + 1
  /\ kWhich' = which
  /\ kSubscriptionId' = sid
  /\ kUserId' = userId
  /\ kFetched' = <<>>
  /\ kcalls' = <<"get">>
  /\ kresult' = Pending
  /\ kpc' = "get1"
  /\ UNCHANGED kBackend
  /\ UNCHANGED notKeys

\* subscription.get answers the first getUserSubscription; lines 97-100 and
\* 128-135 (150-157)
FirstGetReturns ==
  /\ kpc = "get1"
  /\ kFetched' = <<kBackend[kSubscriptionId]>>
  /\ IF UserSubscription(kBackend[kSubscriptionId], kUserId) = NoneOpt
     THEN /\ kresult' = NoneOpt
          /\ kpc' = "done"
          /\ UNCHANGED kcalls
     ELSE /\ kcalls' = Append(kcalls, RegenerateCall(kWhich))
          /\ kpc' = "regenerate"
          /\ UNCHANGED kresult
  /\ UNCHANGED <<kWhich, kSubscriptionId, kUserId, kBackend, kinvoked>>
  /\ UNCHANGED notKeys

\* the key regeneration answers: getUserSubscription is called again and
\* issues subscription.get; line 136 (158)
RegenerateReturns ==
  /\ kpc = "regenerate"
  /\ kBackend' = [kBackend EXCEPT ![kSubscriptionId] = Regenerated(@, kcalls[Len(kcalls)])]
  /\ kcalls' = Append(kcalls, "get")
  /\ kpc' = "get2"
  /\ UNCHANGED <<kWhich, kSubscriptionId, kUserId, kFetched, kresult, kinvoked>>
  /\ UNCHANGED notKeys

\* subscription.get answers the second getUserSubscription, whose result is
\* the function's; lines 97-100
SecondGetReturns ==
  /\ kpc = "get2"
  /\ kFetched' = Append(kFetched, kBackend[kSubscriptionId])
  /\ kresult' = UserSubscription(kBackend[kSubscriptionId], kUserId)
  /\ kpc' = "done"
  /\ UNCHANGED <<kWhich, kSubscriptionId, kUserId, kBackend, kcalls, kinvoked>>
  /\ UNCHANGED notKeys

\* a backend call fails: the await at line 92, 131 or 153 throws
KeyCallFails ==
  /\ kpc \in {"get1", "regenerate", "get2"}
  /\ kresult' = Rejected
  /\ kpc' = "done"
  /\ UNCHANGED <<kWhich, kSubscriptionId, kUserId, kBackend, kFetched, kcalls,
                 kinvoked>>
  /\ UNCHANGED notKeys

\* outside the program, the backend gives a subscription to another user
SubscriptionChangesOwner(sid, userId) ==
  /\ kBackend[sid].userId # userId
  /\ kBackend' = [kBackend EXCEPT ![sid].userId = userId]
  /\ UNCHANGED <<kpc, kWhich, kSubscriptionId, kUserId, kFetched, kcalls,
                 kresult, kinvoked>>
  /\ UNCHANGED notKeys

KNext ==
  \/ \E which \in KeyFunctions, sid \in SubscriptionIds, userId \in SubscriberIds :
       RegenerateKey(which, sid, userId)
  \/ FirstGetReturns
  \/ RegenerateReturns
  \/ SecondGetReturns
  \/ KeyCallFails
  \/ \E sid \in SubscriptionIds, userId \in SubscriberIds :
       SubscriptionChangesOwner(sid, userId)

\* ------------------------------------------------------------------------
\* POST /service and assignUserToProducts (the application module, lines
\* 46, 58-110 and 165-174).  updateApimUser is imported from ./account: its
\* steps are taken from the design (provision the subscription with
\* addUserSubscriptionToProduct, then reconcile the groups).
\* ------------------------------------------------------------------------
\* req.user: absent, or the profile of the authenticated user
NoReqUser == [absent |-> TRUE]
AuthenticatedUsers == [oid : SubscriberIds, email : {"a@x"}]

\* config.apimProductName
ConfigProductName == "plan-A"

\* the caller of addUserSubscriptionToProduct that is updateApimUser
Onboarder == "p1"

FakeFiscalCodes == {"F1", "F2"}

NoSubscription == [absent |-> TRUE]

\* a call with its arguments
Call(name, args) == [call |-> name, args |-> args]

\* the calls of assignUserToProducts in the order of its statements
\* (lines 76, 77, 81, 89, 98)
StepOrder ==
  <<"loginWithAppServiceMSI", "updateApimUser", "createFakeProfile",
    "upsertService", "sendMessage">>

\* the names of the calls issued
CallNames(calls) == [i \in DOMAIN calls |-> calls[i].call]

\* the mutation: a failed call is ignored and the function goes on
ThrownIgnored(step) ==
  IF step = "sendMessage" THEN "resolved"
  ELSE StepOrder[(CHOOSE i \in DOMAIN StepOrder : StepOrder[i] = step) + 1]

\* an await whose promise is rejected throws; assignUserToProducts has no
\* try/catch, so its own promise is rejected
Thrown(step) == "rejected"

\* the mutation: only an absent subscription stops the function
NothingToProvisionOnlyAbsent(subscription) == subscription = NoSubscription

\* !subscription || !subscription.name (line 78)
NothingToProvision(subscription) ==
  IF subscription = NoSubscription THEN TRUE
  ELSE "name" \notin DOMAIN subscription

\* { email: userData.email } (lines 81-83)
FakeProfileArgs(user) == [email |-> user.email]

\* the mutation: the service authorizes no recipient
ServiceArgsNoRecipient(user, subscription, fiscalCode) ==
  [authorized_recipients |-> <<>>, service_id |-> subscription.name]

\* the service record of lines 89-97 (the fields taken from the profile and
\* the constants are left out)
ServiceArgs(user, subscription, fiscalCode) ==
  [authorized_recipients |-> <<fiscalCode>>, service_id |-> subscription.name]

\* sendMessage(config.adminApiKey, fakeFiscalCode, ...) (line 98)
MessageArgs(fiscalCode) == [recipient |-> fiscalCode]

\* what updateApimUser can return once the subscription was created: the
\* contract, the contract without its optional name, or nothing
ReturnedShapes == {"contract", "nameless", "nothing"}

ReturnedSubscription(shape, contract) ==
  CASE shape = "contract" -> contract
    [] shape = "nameless" -> [f \in DOMAIN contract \ {"name"} |-> contract[f]]
    [] shape = "nothing" -> NoSubscription

OInit ==
  /\ hpc = "idle"
  /\ response = "none"
  /\ reqUser = NoReqUser
  /\ opc = "idle"
  /\ upc = "idle"
  /\ oSubscription = Pending
  /\ fakeFiscalCode = None
  /\ ocalls = <<>>
  /\ ucalls = <<>>
  /\ oresult = Pending
  /\ failedAt = None
  /\ oStartedBefore = 0
  /\ requests = 0

\* a POST /service request reaches the handler past the token check: without
\* req.user it answers at once; otherwise assignUserToProducts is called and
\* runs up to its first await (lines 168-171, 62-76)
ServiceRequest(user) ==
  /\ hpc \in {"idle", "responded", "unhandled"}
  /\ requests < MaxRequests
  /\ requests' = requests + 1
  /\ reqUser' = user
  /\ upc' = "idle"
  /\ oSubscription' = Pending
  /\ fakeFiscalCode' = None
  /\ ucalls' = <<>>
  /\ oresult' = Pending
  /\ failedAt' = None
  /\ oStartedBefore' = started
  /\ IF user = NoReqUser
     THEN /\ response' = "OK"
          /\ hpc' = "responded"
          /\ opc' = "idle"
          /\ ocalls' = <<>>
     ELSE /\ response' = "none"
          /\ hpc' = "awaiting"
          /\ opc' = "loginWithAppServiceMSI"
          /\ ocalls' = <<Call("loginWithAppServiceMSI", <<>>)>>
  /\ UNCHANGED svars
  /\ UNCHANGED notOnboarding

\* loginWithAppServiceMSI answers: updateApimUser is called (line 77)
OLoginReturns ==
  /\ opc = "loginWithAppServiceMSI"
  /\ opc' = "updateApimUser"
  /\ upc' = "subscription"
  /\ ocalls' = Append(ocalls, Call("updateApimUser", [userId |-> reqUser.oid]))
  /\ UNCHANGED <<hpc, response, reqUser, oSubscription, fakeFiscalCode, ucalls,
                 oresult, failedAt, oStartedBefore, requests>>
  /\ UNCHANGED svars
  /\ UNCHANGED notOnboarding

\* a call awaited by assignUserToProducts fails (lines 76, 81, 89, 98)
OCallFails ==
  /\ opc \in {"loginWithAppServiceMSI", "createFakeProfile", "upsertService",
              "sendMessage"}
  /\ failedAt' = opc
  /\ opc' = Thrown(opc)
  /\ oresult' = [tag |-> "rejected", error |-> opc]
  /\ UNCHANGED <<hpc, response, reqUser, upc, oSubscription, fakeFiscalCode,
                 ocalls, ucalls, oStartedBefore, requests>>
  /\ UNCHANGED svars
  /\ UNCHANGED notOnboarding

\* updateApimUser invokes addUserSubscriptionToProduct for the user and the
\* configured product
UAddUserSubscriptionToProduct ==
  /\ opc = "updateApimUser"
  /\ upc = "subscription"
  /\ started = oStartedBefore
  /\ AddUserSubscriptionToProduct(Onboarder, reqUser.oid, ConfigProductName)

\* product.get answers that invocation
UProductGetReturns(prod) ==
  /\ opc = "updateApimUser"
  /\ upc = "subscription"
  /\ started = oStartedBefore + 1
  /\ ProductGetReturns(Onboarder, prod)

\* product.get fails in that invocation
UProductGetFails ==
  /\ opc = "updateApimUser"
  /\ upc = "subscription"
  /\ started = oStartedBefore + 1
  /\ ProductGetFails(Onboarder)

\* subscription.createOrUpdate answers that invocation
UCreateOrUpdateReturns ==
  /\ opc = "updateApimUser"
  /\ upc = "subscription"
  /\ started = oStartedBefore + 1
  /\ CreateOrUpdateReturns(Onboarder)

\* subscription.createOrUpdate fails in that invocation
UCreateOrUpdateFails ==
  /\ opc = "updateApimUser"
  /\ upc = "subscription"
  /\ started = oStartedBefore + 1
  /\ CreateOrUpdateFails(Onboarder)

\* addUserSubscriptionToProduct has settled
SubscriptionSettled ==
  /\ opc = "updateApimUser"
  /\ upc = "subscription"
  /\ started = oStartedBefore + 1
  /\ spc[Onboarder] = "done"

\* it returned an error value or was rejected: updateApimUser is rejected
\* with that error, and the await at line 77 throws
UpdateApimUserFailsOnSubscription ==
  /\ SubscriptionSettled
  /\ sresult[Onboarder].tag # "right"
  /\ failedAt' = "updateApimUser"
  /\ opc' = Thrown("updateApimUser")
  /\ upc' = "done"
  /\ ucalls' = Append(ucalls, "addUserSubscriptionToProduct")
  /\ oresult' = [tag |-> "rejected",
                 error |-> IF sresult[Onboarder].tag = "left"
                           THEN sresult[Onboarder].error
                           ELSE "subscription.createOrUpdate"]
  /\ UNCHANGED <<hpc, response, reqUser, oSubscription, fakeFiscalCode, ocalls,
                 oStartedBefore, requests>>
  /\ UNCHANGED svars
  /\ UNCHANGED notOnboarding

\* it returned the subscription: updateApimUser reconciles the groups
UpdateApimUserReconcilesGroups ==
  /\ SubscriptionSettled
  /\ sresult[Onboarder].tag = "right"
  /\ upc' = "groups"
  /\ ucalls' = <<"addUserSubscriptionToProduct", "addUserToGroups">>
  /\ UNCHANGED <<hpc, response, reqUser, opc, oSubscription, fakeFiscalCode,
                 ocalls, oresult, failedAt, oStartedBefore, requests>>
  /\ UNCHANGED svars
  /\ UNCHANGED notOnboarding

\* the group reconciliation fails: updateApimUser is rejected, and the await
\* at line 77 throws
UpdateApimUserFailsOnGroups ==
  /\ opc = "updateApimUser"
  /\ upc = "groups"
  /\ failedAt' = "updateApimUser"
  /\ opc' = Thrown("updateApimUser")
  /\ upc' = "done"
  /\ oresult' = [tag |-> "rejected", error |-> "addUserToGroups"]
  /\ UNCHANGED <<hpc, response, reqUser, oSubscription, fakeFiscalCode, ocalls,
                 ucalls, oStartedBefore, requests>>
  /\ UNCHANGED svars
  /\ UNCHANGED notOnboarding

\* updateApimUser returns: nothing to provision, or createFakeProfile is
\* called (lines 77-83)
OUpdateApimUserReturns(shape) ==
  /\ opc = "updateApimUser"
  /\ upc = "groups"
  /\ upc' = "done"
  /\ oSubscription' = ReturnedSubscription(shape, sresult[Onboarder].value)
  /\ IF NothingToProvision(oSubscription')
     THEN /\ opc' = "resolved"
          /\ oresult' = [tag |-> "resolved"]
          /\ UNCHANGED ocalls
     ELSE /\ opc' = "createFakeProfile"
          /\ ocalls' = Append(ocalls, Call("createFakeProfile", FakeProfileArgs(reqUser)))
          /\ UNCHANGED oresult
  /\ UNCHANGED <<hpc, response, reqUser, fakeFiscalCode, ucalls, failedAt,
                 oStartedBefore, requests>>
  /\ UNCHANGED svars
  /\ UNCHANGED notOnboarding

\* createFakeProfile answers: upsertService is called (lines 81-97)
OCreateFakeProfileReturns(fiscalCode) ==
  /\ opc = "createFakeProfile"
  /\ fakeFiscalCode' = fiscalCode
  /\ opc' = "upsertService"
  /\ ocalls' = Append(ocalls,
       Call("upsertService", ServiceArgs(reqUser, oSubscription, fiscalCode)))
  /\ UNCHANGED <<hpc, response, reqUser, upc, oSubscription, ucalls, oresult,
                 failedAt, oStartedBefore, requests>>
  /\ UNCHANGED svars
  /\ UNCHANGED notOnboarding

\* upsertService answers: sendMessage is called (lines 89-109)
OUpsertServiceReturns ==
  /\ opc = "upsertService"
  /\ opc' = "sendMessage"
  /\ ocalls' = Append(ocalls, Call("sendMessage", MessageArgs(fakeFiscalCode)))
  /\ UNCHANGED <<hpc, response, reqUser, upc, oSubscription, fakeFiscalCode,
                 ucalls, oresult, failedAt, oStartedBefore, requests>>
  /\ UNCHANGED svars
  /\ UNCHANGED notOnboarding

\* sendMessage answers: assignUserToProducts returns (lines 98-110)
OSendMessageReturns ==
  /\ opc = "sendMessage"
  /\ opc' = "resolved"
  /\ oresult' = [tag |-> "resolved"]
  /\ UNCHANGED <<hpc, response, reqUser, upc, oSubscription, fakeFiscalCode,
                 ocalls, ucalls, failedAt, oStartedBefore, requests>>
  /\ UNCHANGED svars
  /\ UNCHANGED notOnboarding

\* assignUserToProducts returned: the handler resumes and answers "OK"
\* (lines 170-172)
HandlerResponds ==
  /\ hpc = "awaiting"
  /\ opc = "resolved"
  /\ response' = "OK"
  /\ hpc' = "responded"
  /\ UNCHANGED <<reqUser, opc, upc, oSubscription, fakeFiscalCode, ocalls,
                 ucalls, oresult, failedAt, oStartedBefore, requests>>
  /\ UNCHANGED svars
  /\ UNCHANGED notOnboarding

\* assignUserToProducts was rejected: the await at line 170 throws, the
\* promise of the handler is rejected and nothing handles it but the
\* process's unhandledRejection listener, which logs the error (line 46)
HandlerRejects ==
  /\ hpc = "awaiting"
  /\ opc = "rejected"
  /\ hpc' = "unhandled"
  /\ UNCHANGED <<response, reqUser, opc, upc, oSubscription, fakeFiscalCode,
                 ocalls, ucalls, oresult, failedAt, oStartedBefore, requests>>
  /\ UNCHANGED svars
  /\ UNCHANGED notOnboarding

ONext ==
  \/ \E user \in AuthenticatedUsers \cup {NoReqUser} : ServiceRequest(user)
  \/ OLoginReturns
  \/ OCallFails
  \/ UAddUserSubscriptionToProduct
  \/ \E prod \in ProductAnswers(ConfigProductName) : UProductGetReturns(prod)
  \/ UProductGetFails
  \/ UCreateOrUpdateReturns
  \/ UCreateOrUpdateFails
  \/ UpdateApimUserFailsOnSubscription
  \/ UpdateApimUserReconcilesGroups
  \/ UpdateApimUserFailsOnGroups
  \/ \E shape \in ReturnedShapes : OUpdateApimUserReturns(shape)
  \/ \E fiscalCode \in FakeFiscalCodes : OCreateFakeProfileReturns(fiscalCode)
  \/ OUpsertServiceReturns
  \/ OSendMessageReturns
  \/ HandlerResponds
  \/ HandlerRejects

GNext ==
  \/ \E user \in Users, G \in GroupLists : AddUserToGroups(user, G)
  \/ UserGroupListReturns
  \/ UserGroupListFails
  \/ \E i \in 1..MaxGroups : GroupUserCreateIssued(i)
  \/ \E i \in 1..MaxGroups : AwaitPrevThrows(i)
  \/ \E i \in 1..MaxGroups : GroupUserCreateReturns(i)
  \/ \E i \in 1..MaxGroups : GroupUserCreateFails(i)
  \/ ReduceSettled

\* the components not exercised by a specification stay as constructed
GQuiet == GInit /\ membership = {}

\* the subscriptions of the backend when the key functions are not exercised
KQuiet ==
  /\ KInit
  /\ kBackend = [sid \in SubscriptionIds |->
                   [userId |-> "u1", name |-> "sub", primaryKey |-> 0, secondaryKey |-> 0]]

GroupsInit == GInit /\ LInit /\ CInit /\ SInit /\ KQuiet /\ OInit
SpecGroups == GroupsInit /\ [][GNext]_vars

LoginInit == LInit /\ GQuiet /\ CInit /\ SInit /\ KQuiet /\ OInit
SpecLogin == LoginInit /\ [][LNext]_vars

CacheInit == CInit /\ GQuiet /\ LInit /\ SInit /\ KQuiet /\ OInit
SpecCache == CacheInit /\ [][CNext]_vars

SubscriptionsInit == SInit /\ GQuiet /\ LInit /\ CInit /\ KQuiet /\ OInit
SpecSubscriptions == SubscriptionsInit /\ [][SNext]_vars

KeysInit == KInit /\ GQuiet /\ LInit /\ CInit /\ SInit /\ OInit
SpecKeys == KeysInit /\ [][KNext]_vars

OnboardingInit == OInit /\ SInit /\ GQuiet /\ LInit /\ CInit /\ KQuiet
SpecOnboarding == OnboardingInit /\ [][ONext]_vars

\* ------------------------------------------------------------------------
\* Properties of addUserToGroups
\* ------------------------------------------------------------------------
SeqToSet(s) == {s[i] : i \in DOMAIN s}

\* C1: a successful addUserToGroups(user, G) returns as added-list exactly
\* the desired groups that were not in the membership set C the list call
\* returned (G \ C), also when C holds some but not all of G.
C1_AddedIsDesiredMinusCurrent ==
  (gpc = "done" /\ gresult.tag = "right")
    => SeqToSet(gresult.value) = SeqToSet(groups) \ existingGroupsNames

\* C2: a groupUser.create call is issued only for a group that was not in
\* the membership set returned by the preceding list call.
C2_CreateOnlyForMissing ==
  \A k \in DOMAIN createLog : createLog[k] \notin existingGroupsNames

\* C3: within one invocation at most one groupUser.create call is in flight,
\* a call is issued only after all the previous ones completed successfully,
\* and the calls are issued in the iteration order of the groups argument.
C3_CreatesSerializedInOrder ==
  /\ Cardinality({i \in DOMAIN cb : cb[i].st = "inCreate"}) <= 1
  /\ Len(createLog) <= Len(groups)
  /\ createLog = SubSeq(groups, 1, Len(createLog))
  /\ \A i \in DOMAIN cb :
       cb[i].st = "inCreate" =>
         /\ i = Len(createLog)
         /\ \A j \in 1..(i - 1) : cb[j].st = "resolved"

\* the third create call of an invocation is in flight
C3_Witness ==
  /\ gpc = "reduce"
  /\ Len(createLog) = 3
  /\ cb[3].st = "inCreate"

\* C4: when addUserToGroups(user, G) succeeded and is invoked again with the
\* same user and G, the second invocation issues no groupUser.create call
\* and, once its list call has answered, returns the empty added-list.
C4_SecondCallIsNoOp ==
  repeat.is =>
    /\ createLog = <<>>
    /\ gpc # "reduce"
    /\ (gpc = "done" /\ gresult # Rejected) => gresult = Right(<<>>)

\* a second invocation has returned after a first one that added two groups
C4_Witness ==
  /\ repeat.is
  /\ Len(repeat.added) >= 2
  /\ gpc = "done"
  /\ gresult = Right(<<>>)

\* ------------------------------------------------------------------------
\* Properties of loginToApim
\* ------------------------------------------------------------------------

\* C5: loginToApim called with a credential whose expiresOn is strictly
\* greater than the current time performs no login and no token fetch and
\* returns that same credential (token, loginCreds, expiresOn unchanged).
C5_UnexpiredCredentialReused ==
  (lpc # "idle" /\ tokenCreds # NoCreds /\ tokenCreds.expiresOn > callTime)
    => /\ lpc = "done"
       /\ loginCalls = 0
       /\ tokenCalls = 0
       /\ lresult = tokenCreds

\* a reused credential: one of the latest instants it is still valid
C5_Witness ==
  /\ lpc = "done"
  /\ tokenCreds # NoCreds
  /\ tokenCreds.expiresOn = callTime + 1
  /\ lresult = tokenCreds

\* the invocation had to refresh: no credential, or one expired at the call
MustRefresh == tokenCreds = NoCreds \/ tokenCreds.expiresOn <= callTime

\* C6: loginToApim called with no credential or with one whose expiresOn is
\* at or before the current time performs exactly one login followed by
\* exactly one token fetch and returns a new credential that expires
\* 3,600,000 ms after it was built, hence after the call time; a credential
\* expired at the call is never returned.
C6_ExpiredCredentialRefreshed ==
  /\ (lpc = "login" /\ MustRefresh) => (loginCalls = 1 /\ tokenCalls = 0)
  /\ (lpc = "getToken" /\ MustRefresh) => (loginCalls = 1 /\ tokenCalls = 1)
  /\ (lpc = "done" /\ MustRefresh /\ lresult # Rejected) =>
       /\ loginCalls = 1
       /\ tokenCalls = 1
       /\ lresult.expiresOn = constructTime + 3600000
       /\ constructTime >= callTime
       /\ lresult.expiresOn > callTime
       /\ lresult.loginCreds = loginCreds
  /\ (lpc = "done" /\ MustRefresh) => lresult # tokenCreds
  /\ (lpc = "done" /\ lresult # Rejected) => lresult.expiresOn > callTime

\* a credential that expires exactly at the call time has been replaced,
\* the clock having moved between the call and the construction
C6_Witness ==
  /\ lpc = "done"
  /\ tokenCreds # NoCreds
  /\ tokenCreds.expiresOn = callTime
  /\ lresult # Rejected
  /\ constructTime > callTime

\* ------------------------------------------------------------------------
\* Properties of getApimUser and the user cache
\* ------------------------------------------------------------------------

\* C7: two consecutive getApimUser(email) calls of a caller, with no cache
\* clear in between, issue at most one listByService query in total,
\* whatever the backend answered.
C7_AtMostOneQueryForTwoCalls ==
  \A p \in Procs :
    (cpc[p] = "done" /\ prevCall[p].valid)
      => prevCall[p].queries + queries[p] <= 1

\* C7 as amended: when the first of the two calls returned a user, the
\* second one is served from the cache: it issues no query and returns a
\* user, so that the two calls issue at most one query in total.
C7_AtMostOneQueryWhenFound ==
  \A p \in Procs :
    (prevCall[p].valid /\ prevCall[p].found)
      => /\ cpc[p] = "done"
         /\ queries[p] = 0
         /\ cret[p].tag = "some"
         /\ prevCall[p].queries + queries[p] <= 1

\* a second call served from the cache after a first call that queried
C7_Witness ==
  \E p \in Procs :
    /\ cpc[p] = "done"
    /\ prevCall[p].valid
    /\ prevCall[p].found
    /\ prevCall[p].queries = 1
    /\ queries[p] = 0

\* C8: the timer clears every entry of the cache at once, and after a clear
\* the next getApimUser call for a previously cached email issues a new
\* listByService query.
C8_EvictedEmailIsQueriedAgain ==
  /\ [](\A p \in Procs : afterEviction[p] # "no" => queries[p] = 1)
  /\ [][clears' # clears => DOMAIN apimUserCache' = {}]_vars

\* C8 as amended: the timer clears every entry of the cache at once, and
\* after a clear the next getApimUser call for a previously cached email
\* issues a new listByService query, provided no lookup of that email was
\* in flight when the cache was cleared.
C8_EvictedEmailIsQueriedAgainUnlessRaced ==
  /\ [](\A p \in Procs : afterEviction[p] = "clean" => queries[p] = 1)
  /\ [](\A e \in evicted \ pendingAtClear : e \notin DOMAIN apimUserCache)
  /\ [][clears' # clears => DOMAIN apimUserCache' = {}]_vars

\* after a clear that emptied a cache of two entries, the first lookup of
\* one of them has queried the backend and got a user
C8_Witness ==
  \E p \in Procs :
    /\ clears >= 1
    /\ afterEviction[p] = "clean"
    /\ evicted # {}
    /\ cpc[p] = "done"
    /\ queries[p] = 1
    /\ cret[p].tag = "some"

\* the top result has neither an id nor a name
LacksBoth(res) == Falsy(res.first.id) /\ Falsy(res.first.name)

\* the top result has no id, or no name
LacksEither(res) == Falsy(res.first.id) \/ Falsy(res.first.name)

\* a miss stores what it returns under the queried email, and only that
MissStoresWhatItReturns ==
  \A p \in Procs :
    (cpc[p] = "query" /\ cpc'[p] = "done") =>
      IF cret'[p].tag = "some"
      THEN /\ cemail[p] \in DOMAIN apimUserCache'
           /\ apimUserCache'[cemail[p]] = cret'[p].value
           /\ \A k \in DOMAIN apimUserCache' \ {cemail[p]} :
                k \in DOMAIN apimUserCache /\ apimUserCache'[k] = apimUserCache[k]
      ELSE apimUserCache' = apimUserCache

\* C9: on a miss getApimUser returns absent if the query yields no result
\* or the top result lacks both id and name; in every other case it returns
\* the first result, normalized, and stores a copy under the queried email.
C9_AbsentOnlyIfBothLacking ==
  /\ [](\A p \in Procs :
         (cpc[p] = "done" /\ queries[p] = 1 /\ cret[p] # Rejected) =>
           IF results[p].length = 0 \/ LacksBoth(results[p])
           THEN cret[p] = NoneOpt
           ELSE cret[p] = Some(results[p].first))
  /\ [][MissStoresWhatItReturns]_vars

\* C9 as amended: on a miss getApimUser returns absent if the query yields
\* no result or the top result lacks its id or its name (either one); in
\* every other case it returns the first result, normalized, and stores a
\* copy under the queried email.
C9_AbsentIfEitherLacking ==
  /\ [](\A p \in Procs :
         (cpc[p] = "done" /\ queries[p] = 1 /\ cret[p] # Rejected) =>
           IF results[p].length = 0 \/ LacksEither(results[p])
           THEN cret[p] = NoneOpt
           ELSE cret[p] = Some(results[p].first))
  /\ [][MissStoresWhatItReturns]_vars

\* a miss whose top result has an id but no name has returned absent
C9_Witness ==
  \E p \in Procs :
    /\ cpc[p] = "done"
    /\ queries[p] = 1
    /\ results[p].length = 1
    /\ results[p].first.id = "id1"
    /\ results[p].first.name = None
    /\ cret[p] = NoneOpt

\* ------------------------------------------------------------------------
\* Properties of addUserSubscriptionToProduct
\* ------------------------------------------------------------------------

\* C10: every createOrUpdate call of addUserSubscriptionToProduct carries
\* state active, the given userId and the id of the product looked up, under
\* an identifier no earlier call used; so repeated calls for the same user
\* and product never reuse an identifier and each call that succeeds adds a
\* subscription.
C10_ActiveUnderFreshIdentifier ==
  /\ \A p \in Procs :
       spc[p] = "createOrUpdate" =>
         /\ createCalls[myCall[p]].params.state = "active"
         /\ createCalls[myCall[p]].params.userId = sUserId[p]
         /\ createCalls[myCall[p]].params.productId = ProductIdOf(sProductName[p])
         /\ createCalls[myCall[p]].params.displayName = createCalls[myCall[p]].sid
  /\ \A k \in DOMAIN createCalls : createCalls[k].params.state = "active"
  /\ \A j, k \in DOMAIN createCalls : j < k => createCalls[j].sid # createCalls[k].sid
  /\ Cardinality(DOMAIN subscriptions)
       = Cardinality({k \in DOMAIN createCalls : createCalls[k].status = "ok"})
  /\ \A k \in DOMAIN createCalls :
       createCalls[k].status = "ok" =>
         /\ createCalls[k].sid \in DOMAIN subscriptions
         /\ subscriptions[createCalls[k].sid].state = "active"
         /\ subscriptions[createCalls[k].sid].userId = createCalls[k].params.userId
         /\ subscriptions[createCalls[k].sid].productId = createCalls[k].params.productId

\* three calls for the same user and product succeeded: three subscriptions
C10_Witness ==
  /\ Len(createCalls) = 3
  /\ \A k \in DOMAIN createCalls :
       /\ createCalls[k].status = "ok"
       /\ createCalls[k].params.userId = "u1"
       /\ createCalls[k].params.productId = "prod-1"
  /\ Cardinality(DOMAIN subscriptions) = 3

\* ------------------------------------------------------------------------
\* Further properties of addUserToGroups
\* ------------------------------------------------------------------------

\* C16: addUserToGroups called with a user that is absent or has no name
\* returns an error value and issues no userGroup.list and no
\* groupUser.create call.
C16_UnparsableUserNoBackendCall ==
  (gpc # "idle" /\ (gUser = NoUser \/ gUser.name = None))
    => /\ gpc = "done"
       /\ gresult.tag = "left"
       /\ listCalls = 0
       /\ createLog = <<>>
       /\ cb = <<>>

\* a user without a name was refused although groups were asked for
C16_Witness ==
  /\ gpc = "done"
  /\ gUser = [name |-> None]
  /\ Len(groups) >= 1
  /\ gresult.tag = "left"

\* the callbacks whose promise is rejected
RejectedCallbacks == {i \in DOMAIN cb : cb[i].st = "rejected"}

\* the first of them: the one whose groupUser.create call failed
FirstRejected == CHOOSE i \in RejectedCallbacks : \A j \in RejectedCallbacks : i <= j

\* C17: when the k-th groupUser.create call of an invocation fails, no
\* further create call is issued by it, the invocation reports the failure
\* instead of a success list, and the memberships added by the calls before
\* remain; the membership set only ever grows.
C17_FailureStopsReconciliation ==
  /\ [](RejectedCallbacks # {} =>
         /\ Len(createLog) = FirstRejected
         /\ \A j \in DOMAIN cb : j > FirstRejected => cb[j].st \in {"awaitPrev", "rejected"}
         /\ \A j \in DOMAIN cb : j < FirstRejected => cb[j].st = "resolved"
         /\ gpc = "done" => gresult = Rejected)
  /\ [](\A j \in DOMAIN cb : cb[j].st = "resolved" => groups[j] \in membership)
  /\ [][membership \subseteq membership']_vars

\* the second of three create calls failed: the first group was added and
\* stays, the third call was never issued, the invocation is rejected
C17_Witness ==
  /\ gpc = "done"
  /\ gresult = Rejected
  /\ Len(cb) = 3
  /\ cb[1].st = "resolved"
  /\ cb[2].st = "rejected"
  /\ Len(createLog) = 2
  /\ groups[1] \notin existingGroupsNames
  /\ groups[1] \in membership

\* ------------------------------------------------------------------------
\* Further properties of getApimUser and the user cache
\* ------------------------------------------------------------------------

\* a change of the cache is the timer's clear or the write of a lookup that
\* just got its answer, which stores the top result of that answer under the
\* email it queried
CacheWrittenByAnsweredLookup ==
  apimUserCache' # apimUserCache =>
    \/ DOMAIN apimUserCache' = {}
    \/ \E p \in Procs :
         /\ cpc[p] = "query"
         /\ cpc'[p] = "done"
         /\ cemail[p] \in DOMAIN apimUserCache'
         /\ apimUserCache'[cemail[p]] = results'[p].first
         /\ \A k \in DOMAIN apimUserCache' \ {cemail[p]} :
              k \in DOMAIN apimUserCache /\ apimUserCache'[k] = apimUserCache[k]

\* C18: under any interleaving of concurrent getApimUser calls and timer
\* clears, every entry of the cache under key e has a non-empty id and a
\* non-empty name and is a record the backend returned for a query on e;
\* concurrent misses for one email may each query the backend, and the entry
\* left in the cache is the one written last.
C18_CacheHoldsUsableBackendRecords ==
  /\ [](\A e \in DOMAIN apimUserCache :
         /\ ~Falsy(apimUserCache[e].id)
         /\ ~Falsy(apimUserCache[e].name)
         /\ apimUserCache[e].email = e)
  /\ [][CacheWrittenByAnsweredLookup]_vars

\* two lookups of one email both queried the backend and got different
\* users; the cache holds the one of the lookup that wrote
C18_Witness ==
  \E e \in Emails :
    /\ cpc["p1"] = "done" /\ cpc["p2"] = "done"
    /\ cemail["p1"] = e /\ cemail["p2"] = e
    /\ queries["p1"] = 1 /\ queries["p2"] = 1
    /\ cret["p1"].tag = "some" /\ cret["p2"].tag = "some"
    /\ results["p1"].first # results["p2"].first
    /\ e \in DOMAIN apimUserCache
    /\ apimUserCache[e] = results["p2"].first

\* ------------------------------------------------------------------------
\* Properties of regeneratePrimaryKey and regenerateSecondaryKey
\* ------------------------------------------------------------------------

\* C12: regeneratePrimaryKey and regenerateSecondaryKey return absent and
\* never issue the backend's key regeneration call when the subscription
\* fetched belongs to another user than userId.
C12_OtherOwnerNoRegeneration ==
  (Len(kFetched) >= 1 /\ kFetched[1].userId # kUserId)
    => /\ kpc = "done"
       /\ kresult = NoneOpt
       /\ kcalls = <<"get">>
       /\ Len(kFetched) = 1

\* regenerateSecondaryKey was refused for a named subscription of another user
C12_Witness ==
  /\ kpc = "done"
  /\ kWhich = "secondary"
  /\ Len(kFetched) = 1
  /\ kFetched[1].userId # kUserId
  /\ kFetched[1].name = "sub"
  /\ kresult = NoneOpt

\* the first fetch found a named subscription of the caller
Authorized ==
  /\ Len(kFetched) >= 1
  /\ kFetched[1].userId = kUserId
  /\ ~Falsy(kFetched[1].name)

\* the key the invoked function is about
KeyOf(subscription) ==
  IF kWhich = "primary" THEN subscription.primaryKey ELSE subscription.secondaryKey

\* the key the invoked function is not about
OtherKeyOf(subscription) ==
  IF kWhich = "primary" THEN subscription.secondaryKey ELSE subscription.primaryKey

\* the regeneration call of the invoked function
ExpectedRegenerateCall ==
  IF kWhich = "primary" THEN "regeneratePrimaryKey" ELSE "regenerateSecondaryKey"

\* C19: for an authorized caller the functions issue the ownership-check
\* fetch, then one key regeneration call, then a second fetch, and return
\* the result of that second fetch under the same ownership check: absent
\* when the subscription is no longer the caller's at the second fetch.
C19_FetchRegenerateRefetch ==
  Authorized =>
    /\ kpc = "regenerate" => kcalls = <<"get", ExpectedRegenerateCall>>
    /\ kpc = "get2" => kcalls = <<"get", ExpectedRegenerateCall, "get">>
    /\ (kpc = "done" /\ kresult # Rejected) =>
         /\ kcalls = <<"get", ExpectedRegenerateCall, "get">>
         /\ Len(kFetched) = 2
         /\ KeyOf(kFetched[2]) # KeyOf(kFetched[1])
         /\ OtherKeyOf(kFetched[2]) = OtherKeyOf(kFetched[1])
         /\ kresult = IF kFetched[2].userId = kUserId /\ ~Falsy(kFetched[2].name)
                      THEN Some(kFetched[2])
                      ELSE NoneOpt

\* the subscription changed owner between the regeneration and the second
\* fetch: the authorized caller gets absent
C19_Witness ==
  /\ Authorized
  /\ kpc = "done"
  /\ Len(kFetched) = 2
  /\ kFetched[2].userId # kUserId
  /\ kresult = NoneOpt

\* ------------------------------------------------------------------------
\* Properties of the onboarding request
\* ------------------------------------------------------------------------
\* the calls a request issues before anything is provisioned downstream
UpToProvisioning == <<"loginWithAppServiceMSI", "updateApimUser">>

\* the invocation of addUserSubscriptionToProduct made by the present request
\* got an answer from the product lookup
ProductLookupAnswered ==
  /\ reqUser # NoReqUser
  /\ started = oStartedBefore + 1
  /\ spc[Onboarder] \in {"createOrUpdate", "done"}
  /\ ~(sresult[Onboarder] = Rejected /\ myCall[Onboarder] = 0)

LacksIdentifier(prod) == prod = NoProduct \/ prod.id \in {None, ""}

ReturnedWithoutName ==
  /\ oSubscription # Pending
  /\ (oSubscription = NoSubscription \/ "name" \notin DOMAIN oSubscription)

\* C13: when updateApimUser returns nothing or a subscription without name,
\* assignUserToProducts returns normally and has issued no createFakeProfile,
\* upsertService or sendMessage call.
C13_NamelessSubscriptionEndsSilently ==
  ReturnedWithoutName =>
    /\ opc = "resolved"
    /\ oresult = [tag |-> "resolved"]
    /\ failedAt = None
    /\ CallNames(ocalls) = UpToProvisioning

\* a subscription without name was returned and the request was answered
C13_Witness ==
  /\ ReturnedWithoutName
  /\ oSubscription # NoSubscription
  /\ hpc = "responded"
  /\ response = "OK"

\* C14: the calls of a request are issued in the order of StepOrder, each
\* once, the next one only when the one before has answered; a request that
\* ran to its end with a named subscription issued all five, the service
\* keyed by the subscription's name and authorizing the fiscal code that
\* createFakeProfile returned, the message sent to that fiscal code.
C14_StepsInOrderOnce ==
  /\ \A i \in DOMAIN ocalls : i <= Len(StepOrder) /\ ocalls[i].call = StepOrder[i]
  /\ opc \in {StepOrder[i] : i \in DOMAIN StepOrder} =>
       ocalls[Len(ocalls)].call = opc
  /\ (opc = "resolved" /\ ~ReturnedWithoutName) =>
       /\ CallNames(ocalls) = StepOrder
       /\ ucalls[1] = "addUserSubscriptionToProduct"
       /\ createCalls[myCall[Onboarder]].status = "ok"
       /\ fakeFiscalCode \in FakeFiscalCodes
       /\ ocalls[4].args.service_id = oSubscription.name
       /\ ocalls[4].args.authorized_recipients = <<fakeFiscalCode>>
       /\ ocalls[5].args.recipient = fakeFiscalCode

\* a request ran to its end and was answered
C14_Witness ==
  /\ opc = "resolved"
  /\ ~ReturnedWithoutName
  /\ Len(ocalls) = 5
  /\ hpc = "responded"

\* the subscription the present request created
CreatedByRequest ==
  IF started = oStartedBefore + 1 /\ myCall[Onboarder] # 0
       /\ createCalls[myCall[Onboarder]].status = "ok"
  THEN {createCalls[myCall[Onboarder]].sid}
  ELSE {}

\* C15: once a call of a request has failed, assignUserToProducts is
\* rejected, the failed call is the last one the request issued and was
\* issued once, nothing more is called or changed for that request, and the
\* subscription it created stays.
C15_FailureShortCircuits ==
  /\ [](failedAt # None =>
          /\ opc = "rejected"
          /\ oresult.tag = "rejected"
          /\ hpc \in {"awaiting", "unhandled"}
          /\ ocalls[Len(ocalls)].call = failedAt
          /\ \A i, j \in DOMAIN ocalls : ocalls[i].call = ocalls[j].call => i = j
          /\ CreatedByRequest \subseteq DOMAIN subscriptions)
  /\ [][(failedAt # None /\ requests' = requests) =>
          /\ ocalls' = ocalls
          /\ ucalls' = ucalls
          /\ opc' = opc
          /\ svars' = svars]_vars
  /\ [][DOMAIN subscriptions \subseteq DOMAIN subscriptions']_vars

\* sendMessage failed after the subscription was created: the subscription
\* is still there and the rejection reached the handler
C15_Witness ==
  /\ failedAt = "sendMessage"
  /\ opc = "rejected"
  /\ hpc = "unhandled"
  /\ CreatedByRequest # {}
  /\ CreatedByRequest \subseteq DOMAIN subscriptions

\* C20: a request whose handler has ended has received a response, and "OK"
\* is sent to an authenticated request only once assignUserToProducts has
\* returned.
C20_EveryRequestAnswered ==
  /\ hpc \in {"responded", "unhandled"} => response # "none"
  /\ (response = "OK" /\ reqUser # NoReqUser) => opc = "resolved"

====
